---- MODULE Spec2Model ----
(***************************************************************************)
(* A model of the deployment plugin rigel_registry_plugin:                 *)
(*   - Plugin    (src/ecr_rigel_plugin/ecr_rigel_plugin.py), the backend   *)
(*                that talks to the docker API client itself and raises    *)
(*                the typed errors of src/ecr_rigel_plugin/exceptions.py;  *)
(*   - ECRPlugin (src/rigel_registry_plugin/registries/ecr.py), the        *)
(*                backend that delegates to rigelcore's DockerClient;      *)
(*   - the two dispatchers, both a class named Plugin, that pick a backend *)
(*     from the declared registry: src/registry_rigel_plugin/plugin.py and *)
(*     src/rigel_registry_plugin/plugin.py.                                *)
(* A text is a sequence of atoms (one-character strings, or a whole        *)
(* literal as one atom); an optional value is the empty sequence (None)    *)
(* or a one-element sequence.  The container engine, the identity service  *)
(* and the environment are external: their answers are chosen              *)
(* nondeterministically, and every call made to them is recorded in calls. *)
(*                                                                         *)
(* Five specifications share the variables:                                *)
(*   Spec         one backend is constructed and run() is executed;        *)
(*   SpecCalls    as Spec, or the caller invokes the public operations     *)
(*                tag, authenticate, deploy itself, in any order;          *)
(*   SpecSelect   a dispatcher is constructed, run and stopped;            *)
(*   SpecSecrets  two instances with the same configuration execute run()  *)
(*                side by side and receive the same answers, except for    *)
(*                the values of the credential variables and the secret;   *)
(*   SpecRetry    one backend is constructed and authenticate() is called  *)
(*                repeatedly, the environment changing between calls.      *)
(***************************************************************************)
EXTENDS Integers, Sequences, FiniteSets, TLC

VARIABLES backend, image, env, pc, ops, err, token, authorizationToken,
          stream, calls, logs,
          credSpec, caller,
          dispatcher, registry, plugin_type, plugin,
          twin

\* What the operations of a backend leave alone.
selection == <<dispatcher, registry, plugin_type, plugin>>
config == <<backend, image, env, credSpec, caller>>

vars == <<backend, image, env, pc, ops, err, token, authorizationToken,
          stream, calls, logs, credSpec, caller,
          dispatcher, registry, plugin_type, plugin, twin>>

\* ------------------------------------------------------------------ bounds
\* Longest target image reference (characters).
MaxImageLen == 3
\* Longest secret, counted in parts (each part is "x" or "AWS:").
MaxSecretParts == 2
\* Longest push stream (records).
MaxStreamLen == 3
\* Most capital letters in a spelling of a registry value.
MaxUpperCase == 2
\* Most calls of authenticate() on one backend instance.
MaxAuthenticateCalls == 2

\* ------------------------------------------------------------- basic values
None == <<>>
Some(x) == <<x>>
Str(s) == <<s>>

SeqsUpTo(S, n) == UNION {[1..k -> S] : k \in 0..n}

RECURSIVE Concat(_)
Concat(ss) == IF ss = <<>> THEN <<>> ELSE Head(ss) \o Concat(Tail(ss))

Count(s, c) == Cardinality({i \in 1..Len(s) : s[i] = c})

\* ------------------------------------------------------------ configuration
Backends == {"Plugin", "ECRPlugin"}

Account == Str("123456789")
Region == Str("test_region")
LocalImage == Str("test_local_image")
User == Str("AWS")
AccessKeyVar == Str("TEST_ACCESS_KEY")
SecretKeyVar == Str("TEST_SECRET_ACCESS_KEY")
credentials == [access_key |-> AccessKeyVar, secret_access_key |-> SecretKeyVar]

\* self.registry = f'{self.account}.dkr.ecr.{self.region}.amazonaws.com'
Registry == Account \o Str(".dkr.ecr.") \o Region \o Str(".amazonaws.com")

ImageChars == {"a", ":"}
ImageRefs == SeqsUpTo(ImageChars, MaxImageLen)

\* CompleteImageName built from the local image's name.
CompleteImageNameLocal(img) == Registry \o Str("/") \o LocalImage

\* complete_image_name = f'{self.registry}/{self.image}'
CompleteImageName(img) == Registry \o Str("/") \o img

EnvValue == Str("test_value")
Environments == [{AccessKeyVar, SecretKeyVar} -> {None, Some(EnvValue)}]

\* ------------------------------------------------------------------ errors
Err(kind, arg) == [kind |-> kind, arg |-> arg]

\* The typed errors of src/ecr_rigel_plugin/exceptions.py, and rigel's
\* MissingRequiredFieldError raised at construction.
TypedErrors == {"MissingRequiredFieldError", "UnsupportedDockerRegistryError",
                "InvalidDockerImageNameError", "DockerImageNotFoundError",
                "UndefinedEnvironmentVariableError", "InvalidAWSCredentialsError",
                "InvalidImageRegistryError", "DockerPushError"}

\* ------------------------------------------------------------ str.split(':')
RECURSIVE Split(_, _)
Split(s, sep) ==
    IF \A i \in 1..Len(s) : s[i] # sep THEN <<s>>
    ELSE LET i == CHOOSE k \in 1..Len(s) :
                      s[k] = sep /\ \A j \in 1..(k - 1) : s[j] # sep
         IN  <<SubSeq(s, 1, i - 1)>> \o Split(SubSeq(s, i + 1, Len(s)), sep)

Latest == Str("latest")

\* SplitImage with the unpacking replaced by taking the first two parts: a
\* reference with several ':' is accepted.
SplitImageFirstTwo(img) ==
    IF \E i \in 1..Len(img) : img[i] = ":"
    THEN LET parts == Split(img, ":")
         IN  [ok |-> TRUE, name |-> parts[1], tag |-> parts[2]]
    ELSE [ok |-> TRUE, name |-> img, tag |-> Latest]

\* SplitImage with the two halves of the unpacking swapped.
SplitImageSwapped(img) ==
    IF \E i \in 1..Len(img) : img[i] = ":"
    THEN LET parts == Split(img, ":")
         IN  IF Len(parts) = 2
             THEN [ok |-> TRUE, name |-> parts[2], tag |-> parts[1]]
             ELSE [ok |-> FALSE, name |-> <<>>, tag |-> <<>>]
    ELSE [ok |-> TRUE, name |-> img, tag |-> Latest]

\* A target image name split as tag() sets desired_image_name / desired_image_tag.
\* The unpacking of a split with more or fewer than two parts raises ValueError.
SplitImage(img) ==
    IF \E i \in 1..Len(img) : img[i] = ":"
    THEN LET parts == Split(img, ":")
         IN  IF Len(parts) = 2
             THEN [ok |-> TRUE, name |-> parts[1], tag |-> parts[2]]
             ELSE [ok |-> FALSE, name |-> <<>>, tag |-> <<>>]
    ELSE [ok |-> TRUE, name |-> img, tag |-> Latest]

\* ------------------------------------------------------------------ base64
\* Bytes are numbers 0..255; a base64 text is a sequence of sextets 0..63,
\* padded with B64Pad to a multiple of four.
B64Pad == 64

ByteOf == [c \in {"A", "W", "S", ":", "x"} |->
             CASE c = "A" -> 65 [] c = "W" -> 87 [] c = "S" -> 83
               [] c = ":" -> 58 [] c = "x" -> 120]

\* str.encode(): the UTF-8 bytes of an ASCII text.
Utf8Encode(s) == [i \in 1..Len(s) |-> ByteOf[s[i]]]

\* bytes.decode('utf-8') of ASCII bytes.
Utf8Decode(bs) ==
    [i \in 1..Len(bs) |-> CHOOSE c \in DOMAIN ByteOf : ByteOf[c] = bs[i]]

RECURSIVE B64Encode(_)
B64Encode(bs) ==
    IF Len(bs) = 0 THEN <<>>
    ELSE LET n  == IF Len(bs) >= 3 THEN 3 ELSE Len(bs)
             b0 == bs[1]
             b1 == IF n >= 2 THEN bs[2] ELSE 0
             b2 == IF n >= 3 THEN bs[3] ELSE 0
             s0 == b0 \div 4
             s1 == (b0 % 4) * 16 + (b1 \div 16)
             s2 == (b1 % 16) * 4 + (b2 \div 64)
             s3 == b2 % 64
             quad == CASE n = 1 -> <<s0, s1, B64Pad, B64Pad>>
                       [] n = 2 -> <<s0, s1, s2, B64Pad>>
                       [] OTHER -> <<s0, s1, s2, s3>>
         IN  quad \o B64Encode(SubSeq(bs, n + 1, Len(bs)))

RECURSIVE B64Decode(_)
B64Decode(ss) ==
    IF Len(ss) < 4 THEN <<>>
    ELSE LET s0 == ss[1]
             s1 == ss[2]
             s2 == ss[3]
             s3 == ss[4]
             b0 == s0 * 4 + (s1 \div 16)
             b1 == (s1 % 16) * 16 + (s2 \div 4)
             b2 == (s2 % 4) * 64 + s3
             triple == CASE s2 = B64Pad -> <<b0>>
                         [] s3 = B64Pad -> <<b0, (s1 % 16) * 16 + (s2 \div 4)>>
                         [] OTHER -> <<b0, b1, b2>>
         IN  triple \o B64Decode(SubSeq(ss, 5, Len(ss)))

\* bytes.replace(pat, b''): every non-overlapping occurrence of pat, left to
\* right, is removed.
RECURSIVE RemoveAll(_, _)
RemoveAll(bs, pat) ==
    IF Len(bs) < Len(pat) THEN bs
    ELSE IF SubSeq(bs, 1, Len(pat)) = pat
         THEN RemoveAll(SubSeq(bs, Len(pat) + 1, Len(bs)), pat)
         ELSE <<bs[1]>> \o RemoveAll(Tail(bs), pat)

AWSPrefix == <<"A", "W", "S", ":">>

\* base64.b64decode(encoded_token).replace(b'AWS:', b'').decode('utf-8')
DecodeToken(encoded) ==
    Utf8Decode(RemoveAll(B64Decode(encoded), Utf8Encode(AWSPrefix)))

\* The secrets the identity service may wrap: up to MaxSecretParts parts, each
\* the character "x" or the text "AWS:".
SecretParts == {<<"x">>, AWSPrefix}
Secrets == {Concat(ps) : ps \in SeqsUpTo(SecretParts, MaxSecretParts)}

\* The identity service's answer for a secret: base64("AWS:" + secret).
IssueToken(secret) == B64Encode(Utf8Encode(AWSPrefix \o secret))

\* ---------------------------------------------------------- records kept
\* One call made to an external collaborator, with how it ended.
Call(op, args, result) == [op |-> op, args |-> args, result |-> result]

Info(text) == [level |-> "info", text |-> text]
Warning(text) == [level |-> "warning", text |-> text]
\* DockerLogPrinter.log(record)
Printed(text) == [level |-> "docker", text |-> text]

\* ------------------------------------------------------------------- tag()
\* How the engine's tag operation may end.
TagOutcomes(b) ==
    IF b = "Plugin" THEN {"ok", "ImageNotFound", "APIError"}
    ELSE {"ok", "DockerClientError"}

\* PluginTag with the missing image reported under the local image's name.
PluginTagLocalImage(img, outcome) ==
    LET p == SplitImage(img)
    IN  IF ~p.ok
        THEN [err |-> Some(Err("InvalidDockerImageNameError", img)),
              calls |-> <<>>, logs |-> <<>>]
        ELSE [err |-> CASE outcome = "ok" -> None
                        [] outcome = "ImageNotFound" ->
                             Some(Err("DockerImageNotFoundError", LocalImage))
                        [] OTHER -> Some(Err("docker.errors.APIError", <<>>)),
              calls |-> <<Call("tag",
                              <<LocalImage, Registry \o Str("/") \o p.name, p.tag>>,
                              outcome)>>,
              logs |-> IF outcome = "ok"
                       THEN <<Info(Str("Changed Docker image tag to ") \o LocalImage)>>
                       ELSE <<>>]

\* Plugin.tag(docker_client)
PluginTag(img, outcome) ==
    LET p == SplitImage(img)
    IN  IF ~p.ok
        THEN [err |-> Some(Err("InvalidDockerImageNameError", img)),
              calls |-> <<>>, logs |-> <<>>]
        ELSE [err |-> CASE outcome = "ok" -> None
                        [] outcome = "ImageNotFound" ->
                             Some(Err("DockerImageNotFoundError", img))
                        [] OTHER -> Some(Err("docker.errors.APIError", <<>>)),
              calls |-> <<Call("tag",
                              <<LocalImage, Registry \o Str("/") \o p.name, p.tag>>,
                              outcome)>>,
              logs |-> IF outcome = "ok"
                       THEN <<Info(Str("Changed Docker image tag to ") \o LocalImage)>>
                       ELSE <<>>]

\* ECRPlugin.tag()
ECRPluginTag(img, outcome) ==
    [err |-> IF outcome = "ok" THEN None ELSE Some(Err(outcome, <<>>)),
     calls |-> <<Call("tag", <<LocalImage, CompleteImageName(img)>>, outcome)>>,
     logs |-> <<>>]

\* ---------------------------------------------------------- authenticate()
\* GetEnvVarValue without the check for None.
GetEnvVarValueUnchecked(e, var) ==
    [raised |-> FALSE, value |-> IF e[var] = None THEN <<>> ELSE e[var][1]]

\* __get_env_var_value(var): os.environ.get(var), refused when it is None.
GetEnvVarValue(e, var) ==
    IF e[var] = None THEN [raised |-> TRUE, value |-> <<>>]
    ELSE [raised |-> FALSE, value |-> e[var][1]]

EnvErrorKind(b) ==
    IF b = "Plugin" THEN "UndefinedEnvironmentVariableError"
    ELSE "UndeclaredEnvironmentVariableError"

\* How the identity-service step may end: at which call, and with what.
IdentityOutcomes ==
    {[stage |-> "none", kind |-> "ok"]}
    \cup [stage : {"aws_client", "get_authorization_token"},
          kind : {"ClientError", "BotoCoreError"}]

\* The except clause around the identity-service step.
IdentityError(b, kind) ==
    IF b = "Plugin"
    THEN IF kind = "ClientError" THEN Err("InvalidAWSCredentialsError", <<>>)
         ELSE Err(kind, <<>>)
    ELSE IF kind = "BotoCoreError" THEN Err("AWSBotoError", Str(kind))
         ELSE Err(kind, <<>>)

LoginOutcomes(b) ==
    IF b = "Plugin" THEN {"ok", "APIError"} ELSE {"ok", "DockerClientError"}

\* LoginError collapsed into the identity step's error kind.
LoginErrorCollapsed(b, outcome) == Err("InvalidAWSCredentialsError", <<>>)

\* What a rejected engine login raises.
LoginError(b, outcome) ==
    IF b = "Plugin" THEN Err("InvalidImageRegistryError", Registry)
    ELSE Err(outcome, <<>>)

EnvCall(var, e) ==
    Call("environ.get", <<var>>, IF e[var] = None THEN "None" ELSE "value")

\* Authenticate with the token field reset when the identity step fails.
AuthenticateClearsToken(b, e, id, secret, login, tok, auth) ==
    LET a  == GetEnvVarValue(e, credentials.access_key)
        s  == GetEnvVarValue(e, credentials.secret_access_key)
        cA == EnvCall(credentials.access_key, e)
        cS == EnvCall(credentials.secret_access_key, e)
        cClient == Call("aws_client", <<a.value, s.value, Region>>,
                        IF id.stage = "aws_client" THEN id.kind ELSE "ok")
        cToken == Call("get_authorization_token", <<>>,
                       IF id.stage = "get_authorization_token" THEN id.kind ELSE "ok")
        encoded == IssueToken(secret)
        decoded == DecodeToken(encoded)
        cLogin == Call("login", <<User, decoded, Registry>>, login)
    IN  IF a.raised
        THEN [err |-> Some(Err(EnvErrorKind(b), credentials.access_key)),
              calls |-> <<cA>>, logs |-> <<>>, token |-> tok,
              authorizationToken |-> auth]
        ELSE IF s.raised
        THEN [err |-> Some(Err(EnvErrorKind(b), credentials.secret_access_key)),
              calls |-> <<cA, cS>>, logs |-> <<>>, token |-> tok,
              authorizationToken |-> auth]
        ELSE IF id.stage = "aws_client"
        THEN [err |-> Some(IdentityError(b, id.kind)),
              calls |-> <<cA, cS, cClient>>, logs |-> <<>>, token |-> None,
              authorizationToken |-> auth]
        ELSE IF id.stage = "get_authorization_token"
        THEN [err |-> Some(IdentityError(b, id.kind)),
              calls |-> <<cA, cS, cClient, cToken>>, logs |-> <<>>, token |-> None,
              authorizationToken |-> auth]
        ELSE IF login # "ok"
        THEN [err |-> Some(LoginError(b, login)),
              calls |-> <<cA, cS, cClient, cToken, cLogin>>, logs |-> <<>>,
              token |-> Some(decoded), authorizationToken |-> Some(encoded)]
        ELSE [err |-> None,
              calls |-> <<cA, cS, cClient, cToken, cLogin>>,
              logs |-> IF b = "Plugin"
                       THEN <<Info(Str("Authenticated with AWS ECR ") \o Registry)>>
                       ELSE <<>>,
              token |-> Some(decoded), authorizationToken |-> Some(encoded)]

\* Plugin.authenticate(docker_client) and ECRPlugin.authenticate(): tok and
\* auth are the token field and the service's last answer before the call.
Authenticate(b, e, id, secret, login, tok, auth) ==
    LET a  == GetEnvVarValue(e, credentials.access_key)
        s  == GetEnvVarValue(e, credentials.secret_access_key)
        cA == EnvCall(credentials.access_key, e)
        cS == EnvCall(credentials.secret_access_key, e)
        cClient == Call("aws_client", <<a.value, s.value, Region>>,
                        IF id.stage = "aws_client" THEN id.kind ELSE "ok")
        cToken == Call("get_authorization_token", <<>>,
                       IF id.stage = "get_authorization_token" THEN id.kind ELSE "ok")
        encoded == IssueToken(secret)
        decoded == DecodeToken(encoded)
        cLogin == Call("login", <<User, decoded, Registry>>, login)
    IN  IF a.raised
        THEN [err |-> Some(Err(EnvErrorKind(b), credentials.access_key)),
              calls |-> <<cA>>, logs |-> <<>>, token |-> tok,
              authorizationToken |-> auth]
        ELSE IF s.raised
        THEN [err |-> Some(Err(EnvErrorKind(b), credentials.secret_access_key)),
              calls |-> <<cA, cS>>, logs |-> <<>>, token |-> tok,
              authorizationToken |-> auth]
        ELSE IF id.stage = "aws_client"
        THEN [err |-> Some(IdentityError(b, id.kind)),
              calls |-> <<cA, cS, cClient>>, logs |-> <<>>, token |-> tok,
              authorizationToken |-> auth]
        ELSE IF id.stage = "get_authorization_token"
        THEN [err |-> Some(IdentityError(b, id.kind)),
              calls |-> <<cA, cS, cClient, cToken>>, logs |-> <<>>, token |-> tok,
              authorizationToken |-> auth]
        ELSE IF login # "ok"
        THEN [err |-> Some(LoginError(b, login)),
              calls |-> <<cA, cS, cClient, cToken, cLogin>>, logs |-> <<>>,
              token |-> Some(decoded), authorizationToken |-> Some(encoded)]
        ELSE [err |-> None,
              calls |-> <<cA, cS, cClient, cToken, cLogin>>,
              logs |-> IF b = "Plugin"
                       THEN <<Info(Str("Authenticated with AWS ECR ") \o Registry)>>
                       ELSE <<>>,
              token |-> Some(decoded), authorizationToken |-> Some(encoded)]

\* ---------------------------------------------------------------- deploy()
ErrorMsgs == {Str("denied"), Str("timeout")}

\* What the push stream's iterator may deliver at one position:
\*   progress     a mapping without an 'error' key;
\*   error        a mapping with an 'error' key;
\*   unprintable  a mapping without an 'error' key on which printer.log raises
\*                ValueError;
\*   unparseable  next(iterator) itself raises ValueError: no record is bound.
StreamRecords ==
    [kind : {"progress", "unprintable", "unparseable"}, error : {<<>>}]
    \cup [kind : {"error"}, error : ErrorMsgs]
Streams == SeqsUpTo(StreamRecords, MaxStreamLen)

\* 'error' in log
HasError(r) == r.kind = "error"

Render(r) == Str(r.kind) \o r.error

SuccessLog(name) ==
    Info(Str("Image ") \o name \o Str(" was pushed with success to AWS ECR."))

UnboundLocal == Err("UnboundLocalError", Str("log"))

\* StopIteration without the test 'error' in log: the end of the stream is
\* always a success.
StopIterationIgnoresError(log, out, name) ==
    IF log = None THEN [err |-> Some(UnboundLocal), logs |-> out]
    ELSE [err |-> None, logs |-> Append(out, SuccessLog(name))]

\* The except StopIteration branch: log is the local variable's binding (None
\* when nothing was ever bound to it), out the lines logged so far.
StopIteration(log, out, name) ==
    IF log = None THEN [err |-> Some(UnboundLocal), logs |-> out]
    ELSE IF HasError(log[1])
         THEN [err |-> Some(Err("DockerPushError", log[1].error)), logs |-> out]
         ELSE [err |-> None, logs |-> Append(out, SuccessLog(name))]

\* The except ValueError branch: the warning formats the local variable log.
ValueErrorHandler(log, out) ==
    IF log = None THEN [raised |-> TRUE, logs |-> out]
    ELSE [raised |-> FALSE,
          logs |-> Append(out, Warning(Str("Unable to parse log message: ")
                                         \o Render(log[1])))]

\* The while True loop of Plugin.deploy over the records left in the stream.
RECURSIVE PushLoop(_, _, _, _)
PushLoop(recs, log, out, name) ==
    IF recs = <<>> THEN StopIteration(log, out, name)
    ELSE LET r == Head(recs)
         IN  IF r.kind = "unparseable"
             THEN LET h == ValueErrorHandler(log, out)
                  IN  IF h.raised THEN [err |-> Some(UnboundLocal), logs |-> out]
                      ELSE PushLoop(Tail(recs), log, h.logs, name)
             ELSE IF r.kind = "unprintable"
             THEN LET h == ValueErrorHandler(Some(r), out)
                  IN  PushLoop(Tail(recs), Some(r), h.logs, name)
             ELSE PushLoop(Tail(recs), Some(r),
                           Append(out, Printed(Render(r))), name)

PushOutcomes(b) ==
    IF b = "Plugin" THEN {"ok", "APIError"} ELSE {"ok", "DockerClientError"}

\* PluginDeploy with a line that logs the credentials handed to push.
PluginDeployLogsToken(img, tok, outcome, recs) ==
    LET name == CompleteImageName(img)
    IN  IF tok = None
        THEN [err |-> Some(Err("AttributeError", Str("token"))),
              calls |-> <<>>, logs |-> <<>>, stream |-> None]
        ELSE LET call == Call("push", <<name, User, tok[1]>>, outcome)
             IN  IF outcome # "ok"
                 THEN [err |-> Some(Err("docker.errors.APIError", <<>>)),
                       calls |-> <<call>>, logs |-> <<>>, stream |-> None]
                 ELSE LET r == PushLoop(recs, None, <<>>, name)
                      IN  [err |-> r.err, calls |-> <<call>>,
                           logs |-> <<Info(Str("Pushing as ") \o User \o Str(":") \o tok[1])>>
                                    \o r.logs,
                           stream |-> Some(recs)]

\* Plugin.deploy(docker_client): tok is the token field (None when the
\* attribute was never set), recs the stream the engine's push returns.
PluginDeploy(img, tok, outcome, recs) ==
    LET name == CompleteImageName(img)
    IN  IF tok = None
        THEN [err |-> Some(Err("AttributeError", Str("token"))),
              calls |-> <<>>, logs |-> <<>>, stream |-> None]
        ELSE LET call == Call("push", <<name, User, tok[1]>>, outcome)
             IN  IF outcome # "ok"
                 THEN [err |-> Some(Err("docker.errors.APIError", <<>>)),
                       calls |-> <<call>>, logs |-> <<>>, stream |-> None]
                 ELSE LET r == PushLoop(recs, None, <<>>, name)
                      IN  [err |-> r.err, calls |-> <<call>>, logs |-> r.logs,
                           stream |-> Some(recs)]

\* ECRPlugin.deploy()
ECRPluginDeploy(img, outcome) ==
    [err |-> IF outcome = "ok" THEN None ELSE Some(Err(outcome, <<>>)),
     calls |-> <<Call("push", <<CompleteImageName(img)>>, outcome)>>,
     logs |-> <<>>, stream |-> None]

\* ------------------------------------------------------------------- run()
\* The lines ECRPlugin.run logs after each operation that returned.
RunLog(b, op, img) ==
    IF b = "Plugin" THEN <<>>
    ELSE CASE op = "tag" ->
                <<Info(Str("Created Docker image ") \o img \o Str(" from ") \o LocalImage)>>
           [] op = "authenticate" ->
                <<Info(Str("Authenticated with AWS ECR ") \o Registry)>>
           [] OTHER ->
                <<Info(Str("Docker image ") \o CompleteImageName(img)
                       \o Str(" was pushed with success to AWS ECR."))>>

\* NextPc with the exception swallowed: run() goes on to the next operation.
NextPcSwallowed(after, e) == after

\* NextPc with a retry: after an exception run() starts over.
NextPcRetry(after, e) == IF e = None THEN after ELSE "created"

\* Where run() stands after an operation: an exception leaves run().
NextPc(after, e) == IF e = None THEN after ELSE "raised"

Op(name, e) == [op |-> name, ok |-> e = None]

\* ---------------------------------------------------------- construction
\* The credentials mapping a backend is constructed with: a key that is
\* absent (or None) is None here.
CredentialSpecs ==
    [access_key : {None, Some(AccessKeyVar)},
     secret_access_key : {None, Some(SecretKeyVar)}]

\* for credential in ['access_key', 'secret_access_key']
CredentialKeys == <<"access_key", "secret_access_key">>

\* The loop of __post_init__: the first key whose value is None.
RECURSIVE MissingCredential(_, _)
MissingCredential(keys, c) ==
    IF keys = <<>> THEN None
    ELSE IF c[Head(keys)] = None THEN Some(Head(keys))
         ELSE MissingCredential(Tail(keys), c)

\* FieldPath without the enclosing mapping's name.
FieldPathBare(key) == Str(key)

\* f"credentials[{credential}]"
FieldPath(key) == Str("credentials[") \o Str(key) \o Str("]")

\* Plugin.__post_init__
PluginPostInit(c) ==
    LET m == MissingCredential(CredentialKeys, c)
    IN  IF m = None THEN None
        ELSE Some(Err("MissingRequiredFieldError", FieldPath(m[1])))

\* ECRPlugin.__init__: pydantic validates credentials against AWSCredentials,
\* whose two fields are required.
ECRPluginInit(c) ==
    IF MissingCredential(CredentialKeys, c) = None THEN None
    ELSE Some(Err("pydantic.ValidationError", Str("credentials")))

\* No dispatcher is involved: the backend is constructed directly.
NoDispatcher ==
    /\ dispatcher = "none"
    /\ registry = None
    /\ plugin_type = None
    /\ plugin = None

\* Nothing has been constructed or called yet.
Fresh ==
    /\ ops = <<>>
    /\ err = None
    /\ token = None
    /\ authorizationToken = None
    /\ stream = None
    /\ calls = <<>>
    /\ logs = <<>>

Init ==
    /\ backend \in Backends
    /\ image \in ImageRefs
    /\ env \in Environments
    /\ credSpec \in CredentialSpecs
    /\ caller = "run"
    /\ pc = "new"
    /\ Fresh
    /\ NoDispatcher
    /\ twin = None

\* Plugin(**data) / ECRPlugin(**data)
Construct ==
    /\ pc = "new"
    /\ LET e == IF backend = "Plugin" THEN PluginPostInit(credSpec)
                ELSE ECRPluginInit(credSpec)
       IN  /\ err' = e
           /\ pc' = IF e = None THEN "created" ELSE "rejected"
    /\ UNCHANGED <<config, selection, twin, ops, token, authorizationToken,
                   stream, calls, logs>>

\* run(): self.tag(docker_client)
RunTag ==
    /\ caller = "run"
    /\ pc = "created"
    /\ \E outcome \in TagOutcomes(backend) :
          LET r == IF backend = "Plugin" THEN PluginTag(image, outcome)
                   ELSE ECRPluginTag(image, outcome)
          IN  /\ err' = r.err
              /\ calls' = calls \o r.calls
              /\ logs' = logs \o r.logs
                         \o (IF r.err = None THEN RunLog(backend, "tag", image) ELSE <<>>)
              /\ ops' = Append(ops, Op("tag", r.err))
              /\ pc' = NextPc("tagged", r.err)
    /\ UNCHANGED <<config, selection, twin, token, authorizationToken, stream>>

\* run(): self.authenticate(docker_client)
RunAuthenticate ==
    /\ caller = "run"
    /\ pc = "tagged"
    /\ \E id \in IdentityOutcomes, secret \in Secrets, login \in LoginOutcomes(backend) :
          LET r == Authenticate(backend, env, id, secret, login, token, authorizationToken)
          IN  /\ err' = r.err
              /\ calls' = calls \o r.calls
              /\ logs' = logs \o r.logs
                         \o (IF r.err = None THEN RunLog(backend, "authenticate", image)
                             ELSE <<>>)
              /\ token' = r.token
              /\ authorizationToken' = r.authorizationToken
              /\ ops' = Append(ops, Op("authenticate", r.err))
              /\ pc' = NextPc("authenticated", r.err)
    /\ UNCHANGED <<config, selection, twin, stream>>

\* run(): self.deploy(docker_client)
RunDeploy ==
    /\ caller = "run"
    /\ pc = "authenticated"
    /\ \E outcome \in PushOutcomes(backend), recs \in Streams :
          LET r == IF backend = "Plugin" THEN PluginDeploy(image, token, outcome, recs)
                   ELSE ECRPluginDeploy(image, outcome)
          IN  /\ err' = r.err
              /\ calls' = calls \o r.calls
              /\ logs' = logs \o r.logs
                         \o (IF r.err = None THEN RunLog(backend, "deploy", image) ELSE <<>>)
              /\ stream' = r.stream
              /\ ops' = Append(ops, Op("deploy", r.err))
              /\ pc' = NextPc("deployed", r.err)
    /\ UNCHANGED <<config, selection, twin, token, authorizationToken>>

Next == Construct \/ RunTag \/ RunAuthenticate \/ RunDeploy

Spec == Init /\ [][Next]_vars

\* ------------------------------------------- the operations called directly
\* The caller invokes tag(), authenticate() and deploy() on a constructed
\* backend itself, each at most once, in any order, and goes on after an
\* exception.  Nothing in the backend records which operations were called:
\* pc stays where construction left it.
Called(name) == \E i \in 1..Len(ops) : ops[i].op = name

\* The push streams tried outside run(): those of at most one record.
ShortStreams == {recs \in Streams : Len(recs) <= 1}

InitCalls ==
    /\ backend \in Backends
    /\ image \in ImageRefs
    /\ env \in Environments
    /\ credSpec \in CredentialSpecs
    /\ caller \in {"run", "direct"}
    /\ pc = "new"
    /\ Fresh
    /\ NoDispatcher
    /\ twin = None

\* tag(docker_client)
CallTag ==
    /\ caller = "direct"
    /\ pc = "created"
    /\ ~Called("tag")
    /\ \E outcome \in TagOutcomes(backend) :
          LET r == IF backend = "Plugin" THEN PluginTag(image, outcome)
                   ELSE ECRPluginTag(image, outcome)
          IN  /\ err' = r.err
              /\ calls' = calls \o r.calls
              /\ logs' = logs \o r.logs
              /\ ops' = Append(ops, Op("tag", r.err))
    /\ UNCHANGED <<config, selection, twin, pc, token, authorizationToken, stream>>

\* authenticate(docker_client)
CallAuthenticate ==
    /\ caller = "direct"
    /\ pc = "created"
    /\ ~Called("authenticate")
    /\ \E id \in IdentityOutcomes, secret \in Secrets, login \in LoginOutcomes(backend) :
          LET r == Authenticate(backend, env, id, secret, login, token, authorizationToken)
          IN  /\ err' = r.err
              /\ calls' = calls \o r.calls
              /\ logs' = logs \o r.logs
              /\ token' = r.token
              /\ authorizationToken' = r.authorizationToken
              /\ ops' = Append(ops, Op("authenticate", r.err))
    /\ UNCHANGED <<config, selection, twin, pc, stream>>

\* deploy(docker_client)
CallDeploy ==
    /\ caller = "direct"
    /\ pc = "created"
    /\ ~Called("deploy")
    /\ \E outcome \in PushOutcomes(backend), recs \in ShortStreams :
          LET r == IF backend = "Plugin" THEN PluginDeploy(image, token, outcome, recs)
                   ELSE ECRPluginDeploy(image, outcome)
          IN  /\ err' = r.err
              /\ calls' = calls \o r.calls
              /\ logs' = logs \o r.logs
              /\ stream' = r.stream
              /\ ops' = Append(ops, Op("deploy", r.err))
    /\ UNCHANGED <<config, selection, twin, pc, token, authorizationToken>>

NextCalls ==
    \/ Construct
    \/ RunTag
    \/ RunAuthenticate
    \/ RunDeploy
    \/ CallTag
    \/ CallAuthenticate
    \/ CallDeploy

SpecCalls == InitCalls /\ [][NextCalls]_vars

\* ------------------------------------------------ authenticate() repeated
\* The caller invokes authenticate() on a constructed backend up to
\* MaxAuthenticateCalls times, going on after an exception; each call finds
\* the environment as it is at that moment.
TestImage == Str("test_image")

InitRetry ==
    /\ backend \in Backends
    /\ image = TestImage
    /\ env \in Environments
    /\ credSpec \in CredentialSpecs
    /\ caller = "retry"
    /\ pc = "new"
    /\ Fresh
    /\ NoDispatcher
    /\ twin = None

\* authenticate(docker_client), called once more
RetryAuthenticate ==
    /\ caller = "retry"
    /\ pc = "created"
    /\ Len(ops) < MaxAuthenticateCalls
    /\ \E e \in Environments, id \in IdentityOutcomes, secret \in Secrets,
          login \in LoginOutcomes(backend) :
          LET r == Authenticate(backend, e, id, secret, login, token, authorizationToken)
          IN  /\ env' = e
              /\ err' = r.err
              /\ calls' = calls \o r.calls
              /\ logs' = logs \o r.logs
              /\ token' = r.token
              /\ authorizationToken' = r.authorizationToken
              /\ ops' = Append(ops, Op("authenticate", r.err))
    /\ UNCHANGED <<backend, image, credSpec, caller, selection, twin, pc, stream>>

NextRetry == Construct \/ RetryAuthenticate

SpecRetry == InitRetry /\ [][NextRetry]_vars

\* -------------------------------------------------- the engine's own state
\* What the calls made so far have left in the container engine: the
\* references a successful tag created and the registries a successful login
\* opened.  A call that raised leaves nothing.
EngineStateAnyCall(cs) ==
    [tagged |-> {SubSeq(cs[i].args, 2, Len(cs[i].args)) :
                    i \in {j \in 1..Len(cs) : cs[j].op = "tag"}},
     logins |-> {cs[i].args[3] :
                    i \in {j \in 1..Len(cs) : cs[j].op = "login"}}]

EngineState(cs) ==
    [tagged |-> {SubSeq(cs[i].args, 2, Len(cs[i].args)) :
                    i \in {j \in 1..Len(cs) : cs[j].op = "tag" /\ cs[j].result = "ok"}},
     logins |-> {cs[i].args[3] :
                    i \in {j \in 1..Len(cs) : cs[j].op = "login" /\ cs[j].result = "ok"}}]

\* ------------------------------------------------ two runs side by side
\* A second instance with the same configuration executes run() next to the
\* first and is given the same answers by the engine and the identity
\* service; only the values of the credential variables and the secret the
\* identity service wraps may differ.  twin holds the second instance.
OtherEnvValue == Str("other_value")

\* The second run's environment: the same variables are set as in e, each to
\* another value.
TwinEnvironment(e) ==
    [v \in {AccessKeyVar, SecretKeyVar} |->
        IF e[v] = None THEN None ELSE Some(OtherEnvValue)]

TagOp(b, img, outcome) ==
    IF b = "Plugin" THEN PluginTag(img, outcome) ELSE ECRPluginTag(img, outcome)

DeployOp(b, img, tok, outcome, recs) ==
    IF b = "Plugin" THEN PluginDeploy(img, tok, outcome, recs)
    ELSE ECRPluginDeploy(img, outcome)

\* The lines an operation of run() adds to the log.
LinesOf(b, op, img, r) ==
    r.logs \o (IF r.err = None THEN RunLog(b, op, img) ELSE <<>>)

InitSecrets ==
    /\ backend \in Backends
    /\ image \in ImageRefs
    /\ env \in Environments
    /\ credSpec \in CredentialSpecs
    /\ caller = "twin"
    /\ pc = "new"
    /\ Fresh
    /\ NoDispatcher
    /\ twin = [image |-> image, credSpec |-> credSpec, env |-> TwinEnvironment(env),
               pc |-> "new", err |-> None, token |-> None,
               authorizationToken |-> None, logs |-> <<>>]

\* Both instances are constructed.
TwinConstruct ==
    /\ caller = "twin"
    /\ pc = "new"
    /\ LET e  == IF backend = "Plugin" THEN PluginPostInit(credSpec)
                 ELSE ECRPluginInit(credSpec)
           e2 == IF backend = "Plugin" THEN PluginPostInit(twin.credSpec)
                 ELSE ECRPluginInit(twin.credSpec)
       IN  /\ err' = e
           /\ pc' = IF e = None THEN "created" ELSE "rejected"
           /\ twin' = [twin EXCEPT !.err = e2,
                                   !.pc = IF e2 = None THEN "created" ELSE "rejected"]
    /\ UNCHANGED <<config, selection, ops, token, authorizationToken, stream,
                   calls, logs>>

\* Both instances: run(): self.tag(docker_client)
TwinTag ==
    /\ caller = "twin"
    /\ pc = "created"
    /\ \E outcome \in TagOutcomes(backend) :
          LET r  == TagOp(backend, image, outcome)
              r2 == TagOp(backend, twin.image, outcome)
          IN  /\ err' = r.err
              /\ calls' = calls \o r.calls
              /\ logs' = logs \o LinesOf(backend, "tag", image, r)
              /\ ops' = Append(ops, Op("tag", r.err))
              /\ pc' = NextPc("tagged", r.err)
              /\ twin' = IF twin.pc # "created" THEN twin
                         ELSE [twin EXCEPT
                                 !.err = r2.err,
                                 !.logs = @ \o LinesOf(backend, "tag", twin.image, r2),
                                 !.pc = NextPc("tagged", r2.err)]
    /\ UNCHANGED <<config, selection, token, authorizationToken, stream>>

\* Both instances: run(): self.authenticate(docker_client)
TwinAuthenticate ==
    /\ caller = "twin"
    /\ pc = "tagged"
    /\ \E id \in IdentityOutcomes, login \in LoginOutcomes(backend),
          secret \in Secrets, secret2 \in Secrets :
          LET r  == Authenticate(backend, env, id, secret, login, token,
                                 authorizationToken)
              r2 == Authenticate(backend, twin.env, id, secret2, login, twin.token,
                                 twin.authorizationToken)
          IN  /\ err' = r.err
              /\ calls' = calls \o r.calls
              /\ logs' = logs \o LinesOf(backend, "authenticate", image, r)
              /\ token' = r.token
              /\ authorizationToken' = r.authorizationToken
              /\ ops' = Append(ops, Op("authenticate", r.err))
              /\ pc' = NextPc("authenticated", r.err)
              /\ twin' = IF twin.pc # "tagged" THEN twin
                         ELSE [twin EXCEPT
                                 !.err = r2.err,
                                 !.logs = @ \o LinesOf(backend, "authenticate",
                                                       twin.image, r2),
                                 !.token = r2.token,
                                 !.authorizationToken = r2.authorizationToken,
                                 !.pc = NextPc("authenticated", r2.err)]
    /\ UNCHANGED <<config, selection, stream>>

\* Both instances: run(): self.deploy(docker_client)
TwinDeploy ==
    /\ caller = "twin"
    /\ pc = "authenticated"
    /\ \E outcome \in PushOutcomes(backend), recs \in ShortStreams :
          LET r  == DeployOp(backend, image, token, outcome, recs)
              r2 == DeployOp(backend, twin.image, twin.token, outcome, recs)
          IN  /\ err' = r.err
              /\ calls' = calls \o r.calls
              /\ logs' = logs \o LinesOf(backend, "deploy", image, r)
              /\ stream' = r.stream
              /\ ops' = Append(ops, Op("deploy", r.err))
              /\ pc' = NextPc("deployed", r.err)
              /\ twin' = IF twin.pc # "authenticated" THEN twin
                         ELSE [twin EXCEPT
                                 !.err = r2.err,
                                 !.logs = @ \o LinesOf(backend, "deploy", twin.image, r2),
                                 !.pc = NextPc("deployed", r2.err)]
    /\ UNCHANGED <<config, selection, token, authorizationToken>>

NextSecrets == TwinConstruct \/ TwinTag \/ TwinAuthenticate \/ TwinDeploy

SpecSecrets == InitSecrets /\ [][NextSecrets]_vars

\* ------------------------------------------------------------ dispatchers
Dispatchers == {"registry_rigel_plugin", "rigel_registry_plugin"}

LowerCase == <<"a", "b", "c", "d", "e", "f", "g", "h", "i", "j", "k", "l", "m",
               "n", "o", "p", "q", "r", "s", "t", "u", "v", "w", "x", "y", "z">>
UpperCase == <<"A", "B", "C", "D", "E", "F", "G", "H", "I", "J", "K", "L", "M",
               "N", "O", "P", "Q", "R", "S", "T", "U", "V", "W", "X", "Y", "Z">>

ToUpper(c) ==
    IF \E k \in 1..Len(LowerCase) : LowerCase[k] = c
    THEN UpperCase[CHOOSE k \in 1..Len(LowerCase) : LowerCase[k] = c]
    ELSE c

ToLower(c) ==
    IF \E k \in 1..Len(UpperCase) : UpperCase[k] = c
    THEN LowerCase[CHOOSE k \in 1..Len(UpperCase) : UpperCase[k] = c]
    ELSE c

\* str.lower()
Lower(s) == [i \in 1..Len(s) |-> ToLower(s[i])]

Ecr == <<"e", "c", "r">>
Gitlab == <<"g", "i", "t", "l", "a", "b">>
Dockerhub == <<"d", "o", "c", "k", "e", "r", "h", "u", "b">>
\* A registry neither dispatcher names.
Quay == <<"q", "u", "a", "y">>

\* The spellings of a word with at most MaxUpperCase capital letters.
Spellings(w) ==
    {[i \in 1..Len(w) |-> IF i \in U THEN ToUpper(w[i]) ELSE w[i]] :
        U \in {V \in SUBSET (1..Len(w)) : Cardinality(V) <= MaxUpperCase}}

\* kwargs.get('registry'): None when the key is absent.
RegistryValues ==
    {None} \cup {Some(s) : s \in UNION {Spellings(w) :
                                          w \in {Ecr, Gitlab, Dockerhub, Quay, <<>>}}}

\* Plugin.__init__ of src/registry_rigel_plugin/plugin.py: the backend is
\* built later, by run().
RegistryRigelPluginInit(reg) ==
    IF reg = None
    THEN [err |-> Some(Err("MissingRequiredFieldError", Str("registry"))),
          plugin_type |-> None, plugin |-> None]
    ELSE LET registry_name == Lower(reg[1])
         IN  IF registry_name \in {Gitlab, Dockerhub}
             THEN [err |-> None, plugin_type |-> Some("GenericDockerRegistryPlugin"),
                   plugin |-> None]
             ELSE IF registry_name = Ecr
             THEN [err |-> None, plugin_type |-> Some("ECRPlugin"), plugin |-> None]
             ELSE [err |-> Some(Err("UnsupportedDockerRegistryError", registry_name)),
                   plugin_type |-> None, plugin |-> None]

\* Plugin.__init__ of src/rigel_registry_plugin/plugin.py: the backend is
\* built at once.
RigelRegistryPluginInit(reg) ==
    LET registry_name == IF reg = None \/ reg = Some(<<>>) THEN <<>> ELSE reg[1]
        type == IF registry_name = Ecr THEN "ECRPlugin"
                ELSE "GenericDockerRegistryPlugin"
    IN  [err |-> None, plugin_type |-> Some(type), plugin |-> Some(type)]

InitSelect ==
    /\ dispatcher \in Dispatchers
    /\ registry \in RegistryValues
    /\ plugin_type = None
    /\ plugin = None
    /\ pc = "init"
    /\ caller = "rigel"
    /\ backend = "none"
    /\ image = <<>>
    /\ env = [v \in {AccessKeyVar, SecretKeyVar} |-> None]
    /\ credSpec = [access_key |-> None, secret_access_key |-> None]
    /\ Fresh
    /\ twin = None

\* Plugin(*args, **kwargs)
DispatcherInit ==
    /\ pc = "init"
    /\ LET r == IF dispatcher = "registry_rigel_plugin"
                THEN RegistryRigelPluginInit(registry)
                ELSE RigelRegistryPluginInit(registry)
       IN  /\ err' = r.err
           /\ plugin_type' = r.plugin_type
           /\ plugin' = r.plugin
           /\ pc' = IF r.err = None THEN "selected" ELSE "raised"
    /\ UNCHANGED <<config, dispatcher, registry, twin, ops, token,
                   authorizationToken, stream, calls, logs>>

\* Plugin.run(): the backend is built if it was not yet, and its run() called.
DispatcherRun ==
    /\ pc = "selected"
    /\ plugin' = plugin_type
    /\ ops' = Append(ops, Op("run", None))
    /\ pc' = "delegated"
    /\ UNCHANGED <<config, dispatcher, registry, plugin_type, twin, err, token,
                   authorizationToken, stream, calls, logs>>

\* Plugin.stop() of src/rigel_registry_plugin/plugin.py
DispatcherStop ==
    /\ pc = "delegated"
    /\ dispatcher = "rigel_registry_plugin"
    /\ ops' = Append(ops, Op("stop", None))
    /\ pc' = "stopped"
    /\ UNCHANGED <<config, selection, twin, err, token, authorizationToken,
                   stream, calls, logs>>

NextSelect == DispatcherInit \/ DispatcherRun \/ DispatcherStop

SpecSelect == InitSelect /\ [][NextSelect]_vars

\* ================================================================== claims
RunOrder == <<"tag", "authenticate", "deploy">>
CallsOf(op) == {i \in 1..Len(calls) : calls[i].op = op}
Raised(kind, arg) == pc = "raised" /\ err = Some(Err(kind, arg))
RegistryHost == <<"123456789", ".dkr.ecr.", "test_region", ".amazonaws.com">>
IsSuccessLog(l) ==
    /\ l.level = "info"
    /\ l.text = <<"Image ">> \o RegistryHost \o <<"/">> \o image
                  \o <<" was pushed with success to AWS ECR.">>

\* C1: in every execution of run() the operations are invoked in the order
\* tag, authenticate, deploy, each at most once, and an operation is invoked
\* only after the previous one returned without error; the engine's login is
\* never called before its tag succeeded, nor its push before its login
\* succeeded.
C1_RunInOrder ==
    /\ Len(ops) <= 3
    /\ \A i \in 1..Len(ops) :
          ops[i].op = RunOrder[i] /\ (i < Len(ops) => ops[i].ok)
    /\ \A op \in {"tag", "login", "push"} : Cardinality(CallsOf(op)) <= 1
    /\ \A i \in CallsOf("login") :
          \E j \in 1..(i - 1) : calls[j].op = "tag" /\ calls[j].result = "ok"
    /\ \A i \in CallsOf("push") :
          \E j \in 1..(i - 1) : calls[j].op = "login" /\ calls[j].result = "ok"

C1_Witness ==
    /\ pc = "deployed"
    /\ Len(ops) = 3
    /\ CallsOf("tag") # {} /\ CallsOf("login") # {} /\ CallsOf("push") # {}

\* C2: every run() of Plugin ends either with tag, authenticate and push all
\* succeeded, or with exactly one error of the typed taxonomy; no failure of
\* an external collaborator reaches the caller as another error.
C2_TypedOutcome ==
    (backend = "Plugin" /\ pc \in {"deployed", "raised"}) =>
        \/ /\ pc = "deployed"
           /\ err = None
           /\ \A op \in {"tag", "login", "push"} :
                 \E i \in CallsOf(op) : calls[i].result = "ok"
        \/ /\ pc = "raised"
           /\ err # None
           /\ err[1].kind \in TypedErrors

\* C3: when a credential environment variable is unset, authenticate() fails
\* with the undefined-environment-variable error naming the first unset
\* variable (access key, then secret key), before any identity-service call
\* and before any engine login.
C3_UndefinedEnvVar ==
    (Len(ops) >= 2 /\ (env[AccessKeyVar] = None \/ env[SecretKeyVar] = None)) =>
        /\ ~ops[2].ok
        /\ Raised(IF backend = "Plugin" THEN "UndefinedEnvironmentVariableError"
                  ELSE "UndeclaredEnvironmentVariableError",
                  IF env[AccessKeyVar] = None THEN <<"TEST_ACCESS_KEY">>
                  ELSE <<"TEST_SECRET_ACCESS_KEY">>)
        /\ \A i \in 1..Len(calls) :
              calls[i].op \notin {"aws_client", "get_authorization_token", "login"}

C3_Witness ==
    /\ Len(ops) >= 2
    /\ env[AccessKeyVar] # None
    /\ env[SecretKeyVar] = None
    /\ pc = "raised"
    /\ \E i \in 1..Len(calls) : calls[i].op = "environ.get" /\ calls[i].result = "None"

\* C4: token decoding is exact: when the identity service answered
\* base64("AWS:" + secret), authenticate() stores exactly secret and passes
\* exactly secret to the engine's login, also when secret contains "AWS:".
C4_TokenExact ==
    \A s \in Secrets :
        (Len(ops) >= 2 /\ authorizationToken = Some(IssueToken(s))) =>
            /\ token = Some(s)
            /\ \A i \in CallsOf("login") : calls[i].args[2] = s

\* C5: any error raised by the identity-service step of Plugin.authenticate()
\* makes it fail with InvalidAWSCredentialsError, whatever the underlying
\* error, and the engine's login is not called.
C5_IdentityErrorsCollapsed ==
    (/\ backend = "Plugin"
     /\ \E i \in CallsOf("aws_client") \cup CallsOf("get_authorization_token") :
           calls[i].result # "ok") =>
        /\ Raised("InvalidAWSCredentialsError", <<>>)
        /\ CallsOf("login") = {}

C7_PushError ==
    (/\ backend = "Plugin"
     /\ stream # None
     /\ Len(stream[1]) > 0
     /\ stream[1][Len(stream[1])].kind = "error") =>
        /\ Raised("DockerPushError", stream[1][Len(stream[1])].error)
        /\ \A i \in 1..Len(logs) : ~IsSuccessLog(logs[i])

\* C8: a malformed record at any position of the push stream, the first
\* included, is not fatal: Plugin.deploy() logs one warning for it, skips it
\* and goes on, and the outcome is the one the well-formed records decide.
WellFormed(r) == r.kind \in {"progress", "error"}
C8_MalformedSkipped ==
    (/\ backend = "Plugin"
     /\ stream # None
     /\ \E i \in 1..Len(stream[1]) : ~WellFormed(stream[1][i])
     /\ \E i \in 1..Len(stream[1]) : WellFormed(stream[1][i])) =>
        LET wf == SelectSeq(stream[1], WellFormed)
            last == wf[Len(wf)]
        IN  /\ last.kind = "error" => Raised("DockerPushError", last.error)
            /\ last.kind # "error" => pc = "deployed" /\ err = None
            /\ Cardinality({i \in 1..Len(logs) : logs[i].level = "warning"})
                 = Cardinality({i \in 1..Len(stream[1]) : ~WellFormed(stream[1][i])})

C10_TagArguments ==
    (backend = "Plugin" /\ Len(ops) >= 1 /\ Count(image, ":") <= 1) =>
        /\ Len(calls) >= 1
        /\ calls[1].op = "tag"
        /\ calls[1].args[1] = <<"test_local_image">>
        /\ IF Count(image, ":") = 0
           THEN /\ calls[1].args[2] = RegistryHost \o <<"/">> \o image
                /\ calls[1].args[3] = <<"latest">>
           ELSE \E k \in 1..Len(image) :
                   /\ image[k] = ":"
                   /\ calls[1].args[2] =
                         RegistryHost \o <<"/">> \o SubSeq(image, 1, k - 1)
                   /\ calls[1].args[3] = SubSeq(image, k + 1, Len(image))

C10_Witness ==
    /\ backend = "Plugin"
    /\ image = <<"a", ":", "a">>
    /\ Len(calls) >= 1
    /\ calls[1].op = "tag"
    /\ calls[1].result = "ok"

\* C14: for every credentials mapping in which access_key or
\* secret_access_key is missing, constructing Plugin fails with
\* MissingRequiredFieldError whose field is exactly credentials[access_key]
\* or credentials[secret_access_key], the first one missing, and the instance
\* is never used: no operation runs and no collaborator is called.
C14_MissingCredential ==
    (/\ backend = "Plugin"
     /\ pc # "new"
     /\ (credSpec.access_key = None \/ credSpec.secret_access_key = None)) =>
        /\ pc = "rejected"
        /\ err = Some(Err("MissingRequiredFieldError",
                          IF credSpec.access_key = None
                          THEN <<"credentials[", "access_key", "]">>
                          ELSE <<"credentials[", "secret_access_key", "]">>))
        /\ ops = <<>>
        /\ calls = <<>>
        /\ token = None

C14_Witness ==
    /\ backend = "Plugin"
    /\ pc = "rejected"
    /\ credSpec.access_key # None
    /\ credSpec.secret_access_key = None

\* C15: when the engine reports that the local image does not exist,
\* Plugin.tag() fails with DockerImageNotFoundError carrying the configured
\* image name, and neither authenticate() nor deploy() is executed in that
\* run(): no environment variable is read and no other collaborator called.
C15_ImageNotFound ==
    (/\ backend = "Plugin"
     /\ \E i \in CallsOf("tag") : calls[i].result = "ImageNotFound") =>
        /\ Raised("DockerImageNotFoundError", image)
        /\ Len(ops) = 1
        /\ ops[1].op = "tag"
        /\ ~ops[1].ok
        /\ \A i \in 1..Len(calls) : calls[i].op = "tag"

C15_Witness ==
    /\ backend = "Plugin"
    /\ image = <<"a">>
    /\ pc = "raised"
    /\ calls # <<>>
    /\ calls[Len(calls)].result = "ImageNotFound"

IsOk(o) == o.ok

\* C16 (as claimed): the lifecycle Created, Tagged, Authenticated, Deployed
\* is enforced for every sequence of calls to tag(), authenticate() and
\* deploy(): the operations that succeed do so in that order, each from the
\* state the preceding one reached, and the engine's push is never called
\* unless an engine login succeeded before.
C16_LifecycleEnforced ==
    /\ LET done == SelectSeq(ops, IsOk)
       IN  \A k \in 1..Len(done) : done[k].op = RunOrder[k]
    /\ \A i \in CallsOf("push") :
          \E j \in 1..(i - 1) : calls[j].op = "login" /\ calls[j].result = "ok"

LifecycleStates == <<"created", "tagged", "authenticated", "deployed">>
LifecycleStep ==
    \/ /\ pc = "new"
       /\ pc' \in {"created", "rejected"}
       /\ ops' = ops
       /\ calls' = calls
    \/ \E k \in 1..Len(RunOrder) :
          /\ pc = LifecycleStates[k]
          /\ pc' \in {LifecycleStates[k + 1], "raised"}
          /\ ops' = Append(ops, [op |-> RunOrder[k],
                                 ok |-> pc' = LifecycleStates[k + 1]])
          /\ \A i \in (Len(calls) + 1)..Len(calls') :
                calls'[i].op = "push" => pc = "authenticated"

\* C16 (amended): it is run() that takes the backend through Created, Tagged,
\* Authenticated, Deployed, with no back-transition: each state is entered
\* from the preceding one, by the corresponding operation called once and
\* returning without error, and in run() the engine's push is called only
\* from Authenticated.  The operations themselves check no state.
C16_RunLifecycle == [][caller = "run" => LifecycleStep]_vars

C16_Witness ==
    /\ caller = "run"
    /\ pc = "deployed"
    /\ ops = <<Op("tag", None), Op("authenticate", None), Op("deploy", None)>>

\* C17 (as claimed): when run() fails at any step, the container engine's
\* state (tagged images, logged-in registries) is the same as before run().
C17_EngineUntouchedOnFailure ==
    pc = "raised" => EngineState(calls) = EngineState(<<>>)

\* C17 (amended): run() undoes nothing.  When it fails at tag() the engine's
\* state is the same as before run(); when it fails at authenticate() the tag
\* made by tag() remains; when it fails at deploy() that tag and the login
\* opened by authenticate() remain.  The failing step itself leaves nothing.
C17_EarlierEffectsRemain ==
    pc = "raised" =>
        LET st == EngineState(calls)
        IN  /\ Cardinality(st.tagged) = (IF Len(ops) >= 2 THEN 1 ELSE 0)
            /\ st.logins = (IF Len(ops) >= 3 THEN {RegistryHost} ELSE {})

C17_Witness ==
    /\ pc = "raised"
    /\ Len(ops) = 3
    /\ EngineState(calls).tagged # {}
    /\ EngineState(calls).logins # {}

\* C18: secrets reach neither the configuration nor the log.  The
\* environment is read only by authenticate(): not at construction, not by
\* tag() (every read comes after the engine's tag call) and not by deploy()
\* (every read comes before the engine's push call).  And two runs that
\* differ only in the values of the credential variables and in the secret
\* have the same configuration fields and the same sequence of log lines.
C18_SecretsStayOut ==
    /\ pc \in {"new", "rejected", "created", "tagged"} => CallsOf("environ.get") = {}
    /\ \A i \in CallsOf("environ.get") :
          /\ Len(ops) >= 2
          /\ \A j \in CallsOf("tag") : j < i
          /\ \A j \in CallsOf("push") : i < j
    /\ twin.image = image
    /\ twin.credSpec = credSpec
    /\ twin.logs = logs

C18_Witness ==
    /\ pc = "deployed"
    /\ logs # <<>>
    /\ twin.env # env
    /\ twin.token # token
    /\ twin.logs = logs
    /\ Cardinality(CallsOf("environ.get")) = 2

\* C19: for every target image reference with at most one ':', the reference
\* deploy() passes to the engine's push is
\* "{account}.dkr.ecr.{region}.amazonaws.com/{image}"; it names the repository
\* that tag() passed to the engine's tag operation, and the same tag whenever
\* the configured image carries one; in a run() that reaches the push, tag
\* and push are each invoked exactly once.
C19_PushReference ==
    (CallsOf("push") # {} /\ Count(image, ":") <= 1) =>
        /\ Cardinality(CallsOf("push")) = 1
        /\ Cardinality(CallsOf("tag")) = 1
        /\ \A i \in CallsOf("push"), j \in CallsOf("tag") :
              LET pushed == Split(calls[i].args[1], ":")
                  tagged == IF backend = "Plugin"
                            THEN <<calls[j].args[2], calls[j].args[3]>>
                            ELSE Split(calls[j].args[2], ":")
              IN  /\ calls[i].args[1] = RegistryHost \o <<"/">> \o image
                  /\ pushed[1] = tagged[1]
                  /\ Count(image, ":") = 1 =>
                        /\ Len(pushed) = 2
                        /\ Len(tagged) = 2
                        /\ pushed[2] = tagged[2]

C19_Witness ==
    /\ image = <<"a", ":", "a">>
    /\ CallsOf("push") # {}
    /\ calls[Len(calls)].op = "push"
    /\ calls[Len(calls)].result = "ok"

\* C20: once the engine's push has returned a stream, Plugin.deploy() ends in
\* one of exactly two ways, whatever the finite stream, the empty one
\* included: the success message is logged, or DockerPushError is raised.
C20_TwoOutcomes ==
    (backend = "Plugin" /\ stream # None) =>
        \/ /\ err = None
           /\ logs # <<>>
           /\ IsSuccessLog(logs[Len(logs)])
        \/ /\ err # None
           /\ err[1].kind = "DockerPushError"

\* next(iterator) returned this record: the local variable log was bound to it.
Returned(r) == r.kind # "unparseable"
SuccessLogged == \E i \in 1..Len(logs) : IsSuccessLog(logs[i])

\* C21 (as claimed): Plugin.deploy() logs success only if no record of the
\* push stream had an 'error' field: a stream with an error record anywhere,
\* also one followed by further records, ends in DockerPushError and never in
\* the success message.
C21_NoSuccessAfterAnyError ==
    (/\ backend = "Plugin"
     /\ stream # None
     /\ \E i \in 1..Len(stream[1]) : HasError(stream[1][i])) =>
        /\ ~SuccessLogged
        /\ err # None
        /\ err[1].kind = "DockerPushError"

\* C21 (amended): Plugin.deploy() logs success only if the last record the
\* stream returned has no 'error' field; the records before it do not count,
\* so a stream in which an error record is followed by a returned non-error
\* record ends in the success message and no error.
C21_SuccessOnlyIfLastClean ==
    (backend = "Plugin" /\ stream # None) =>
        LET got == SelectSeq(stream[1], Returned)
        IN  /\ SuccessLogged =>
               /\ got # <<>>
               /\ ~HasError(got[Len(got)])
               /\ err = None
               /\ pc = "deployed"
            /\ (/\ got # <<>>
                /\ HasError(got[1])
                /\ ~HasError(got[Len(got)])
                /\ Returned(stream[1][1])) =>
                  SuccessLogged /\ err = None

C21_Witness ==
    /\ backend = "Plugin"
    /\ stream # None
    /\ Len(stream[1]) = 2
    /\ stream[1][1].kind = "error"
    /\ stream[1][2].kind = "progress"
    /\ pc = "deployed"
    /\ SuccessLogged

\* This step is a call of authenticate() that raised.
FailedAuthenticate ==
    /\ Len(ops') = Len(ops) + 1
    /\ ops'[Len(ops')].op = "authenticate"
    /\ ~ops'[Len(ops')].ok
\* The engine's login was called during this step.
LoginCalled == \E i \in (Len(calls) + 1)..Len(calls') : calls'[i].op = "login"

\* C22 (as claimed): a failed authenticate() leaves the stored token as it
\* was before the call, whichever error it fails with.
C22_TokenUnchangedOnFailure == [][FailedAuthenticate => token' = token]_vars

\* C22 (amended): an authenticate() that fails before the engine's login is
\* called (undefined environment variable, identity-service error) leaves the
\* stored token as it was before the call; one that fails because the login
\* was rejected (InvalidImageRegistryError in Plugin) has already stored the
\* newly decoded token, the one it passed to login.
C22_TokenKeptUntilLogin ==
    [][FailedAuthenticate =>
          /\ IF LoginCalled
             THEN token' = Some(calls'[Len(calls')].args[2])
             ELSE token' = token
          /\ backend = "Plugin" =>
                (LoginCalled <=> err'[1].kind = "InvalidImageRegistryError")]_vars

C22_Witness ==
    /\ caller = "retry"
    /\ Len(ops) = 2
    /\ ops[1].ok
    /\ ~ops[2].ok
    /\ calls[Len(calls)].op = "get_authorization_token"
    /\ token # None
    /\ token # Some(<<>>)
    /\ \A i \in CallsOf("login") : token = Some(calls[i].args[2])

\* ---------------------------------------------------- claims on dispatchers
\* The dispatcher's constructor has returned or raised.
Dispatched == pc \in {"selected", "raised", "delegated", "stopped"}
KnownRegistries == {Ecr, Gitlab, Dockerhub}

\* C11: for every non-empty registry value that is, compared without regard
\* to case, none of "ecr", "gitlab", "dockerhub", constructing the dispatcher
\* fails with UnsupportedDockerRegistryError carrying that registry value, and
\* no backend is selected or built.
C11_UnsupportedRegistry ==
    (/\ Dispatched
     /\ registry # None
     /\ registry[1] # <<>>
     /\ Lower(registry[1]) \notin KnownRegistries) =>
        /\ pc = "raised"
        /\ err = Some(Err("UnsupportedDockerRegistryError", registry[1]))
        /\ plugin_type = None
        /\ plugin = None

\* C12: registry selection is case-insensitive: every spelling of "ecr"
\* selects ECRPlugin and every spelling of "gitlab" or "dockerhub" selects
\* GenericDockerRegistryPlugin.
C12_CaseInsensitive ==
    (Dispatched /\ registry # None) =>
        /\ Lower(registry[1]) = Ecr => plugin_type = Some("ECRPlugin")
        /\ Lower(registry[1]) \in {Gitlab, Dockerhub} =>
              plugin_type = Some("GenericDockerRegistryPlugin")

\* C13: when the registry value is the empty string or absent, the dispatcher
\* selects GenericDockerRegistryPlugin and raises no error.
C13_EmptySelectsGeneric ==
    (Dispatched /\ (registry = None \/ registry = Some(<<>>))) =>
        /\ err = None
        /\ plugin_type = Some("GenericDockerRegistryPlugin")

====
